---- MODULE Spec2Model ----
(***************************************************************************)
(* Model of scripts/sum_matrices.py: set_trio, write_metadata, make_subdir,*)
(* create_matrice_directory and the summation loop of __main__.            *)
(*                                                                         *)
(* A Python string is a sequence of atoms.  An atom is either one of the   *)
(* separator characters the script splits, joins or trims on (".", ",",    *)
(* TAB, NEWLINE, " ") or a maximal run of other characters (a field of a   *)
(* directory name, a file stem, a fixed path segment).  Concatenation is   *)
(* \o, s[:-1] is the sequence without its last atom, split and join are    *)
(* computed atom by atom.                                                  *)
(***************************************************************************)
EXTENDS Integers, Sequences, FiniteSets, TLC

\* Largest number of files in one results directory.
MaxFiles == 2

TAB == "\t"
NL == "\n"

--------------------------------------------------------------------------
(* Strings *)

RECURSIVE SplitFrom(_, _, _, _)
SplitFrom(s, sep, i, cur) ==
  IF i > Len(s) THEN <<cur>>
  ELSE IF s[i] = sep THEN <<cur>> \o SplitFrom(s, sep, i + 1, <<>>)
  ELSE SplitFrom(s, sep, i + 1, Append(cur, s[i]))

\* str.split(sep): the list of the pieces between the occurrences of sep.
Split(s, sep) == SplitFrom(s, sep, 1, <<>>)

RECURSIVE Join(_, _)
\* sep.join(list)
Join(list, sep) ==
  IF list = <<>> THEN <<>>
  ELSE IF Len(list) = 1 THEN list[1]
  ELSE list[1] \o <<sep>> \o Join(Tail(list), sep)

\* str.replace(old, ''): every occurrence of the atom old removed.
Remove(s, old) == SelectSeq(s, LAMBDA a : a # old)

\* str.startswith('trio')
StartsWithTrio(s) == Len(s) > 0 /\ s[1] = "trio"

RECURSIVE LinesFrom(_, _, _)
LinesFrom(s, i, cur) ==
  IF i > Len(s) THEN (IF cur = <<>> THEN <<>> ELSE <<cur>>)
  ELSE IF s[i] = NL THEN <<Append(cur, NL)>> \o LinesFrom(s, i + 1, <<>>)
  ELSE LinesFrom(s, i + 1, Append(cur, s[i]))

\* Iterating a text file: its lines, each with its terminating newline.
Lines(s) == LinesFrom(s, 1, <<>>)

\* Rank of an atom in the order Python compares the strings of the model
\* (code points: '.' < digits < upper case < lower case).
Rank(a) ==
  CASE a = "." -> 0
    [] a = "001" -> 1
    [] a = "002" -> 2
    [] a = "A" -> 3
    [] a = "B" -> 4
    [] a = "Capture" -> 5
    [] a = "HiC" -> 6
    [] a = "py" -> 7
    [] a = "sum_matrices" -> 8
    [] a = "trio" -> 9

RECURSIVE LexLess(_, _)
\* s < t on strings
LexLess(s, t) ==
  IF t = <<>> THEN FALSE
  ELSE IF s = <<>> THEN TRUE
  ELSE IF s[1] # t[1] THEN Rank(s[1]) < Rank(t[1])
  ELSE LexLess(Tail(s), Tail(t))

RECURSIVE SortSet(_)
\* list.sort() of a list holding the distinct strings of S
SortSet(S) ==
  IF S = {} THEN <<>>
  ELSE LET m == CHOOSE x \in S : \A y \in S \ {x} : LexLess(x, y)
       IN <<m>> \o SortSet(S \ {m})

Range(s) == {s[j] : j \in 1..Len(s)}

\* All the orders in which os.listdir may return the entries of S.
RECURSIVE Orders(_)
Orders(S) ==
  IF S = {} THEN {<<>>}
  ELSE UNION {{<<x>> \o o : o \in Orders(S \ {x})} : x \in S}

--------------------------------------------------------------------------
(* Values of the program *)

NoneVal == [none |-> TRUE, s |-> <<>>]
Some(s) == [none |-> FALSE, s |-> s]

wdir == <<"wdir/">>
hic_dir == wdir \o <<"hic_studies/">>
h5_path == <<"hic_results/matrix/h5df/">>
Header == <<"indiv ", TAB, " protocols ", NL>>

ResOrder == <<1000000, 500000, 200000, 50000>>
Resolutions == Range(ResOrder)

\* '{}'.format(k) of a resolution
Format(k) ==
  CASE k = 1000000 -> "1000000"
    [] k = 500000 -> "500000"
    [] k = 200000 -> "200000"
    [] k = 50000 -> "50000"

--------------------------------------------------------------------------
(* The file system the script runs on *)

Name3(id, p) == <<"trio", ".", id, ".", p>>
Name4(fam, id, p) == <<"trio", ".", fam, ".", id, ".", p>>
ScriptName == <<"sum_matrices", ".", "py">>

Ids == {"A", "B"}
Protocols == {"HiC", "Capture"}
ThreeFieldNames == {Name3(id, p) : id \in Ids, p \in Protocols}
FourFieldNames ==
  {Name4("A", "001", "HiC"), Name4("A", "001", "Capture"), Name4("B", "002", "HiC")}
\* The trio directories of a working directory follow one naming convention.
Listings == (SUBSET ThreeFieldNames) \cup (SUBSET FourFieldNames)

MatrixFile(stem, res) == <<stem, res, ".", "matrix", ".", "h5">>
Files ==
  {MatrixFile("s1_", "1000000"), MatrixFile("s2_", "1000000"), MatrixFile("s1_", "50000")}
DirContents == {S \in SUBSET Files : Cardinality(S) <= MaxFiles}

VARIABLES
  dirs,       \* the entries of the working directory wdir
  h5df,       \* results directory of a trio directory -> the files it holds
  pc,         \* position of the script
  err,        \* the uncaught exception that ended the script, or "none"
  TRIO,       \* the list set_trio returned
  i,          \* write_metadata: index of the next element of trio
  indiv, protocols, entry,   \* write_metadata: its locals
  metadata,   \* content of <hic_dir>/metadata.tsv
  subdirs,    \* directories present under hic_dir
  RES_DIC,    \* create_matrice_directory: its mapping
  mt,         \* create_matrice_directory: the lines of the opened file
  ln, pn,     \* create_matrice_directory: line of the file, protocol of the line
  res_i,      \* summation loop: position in the list of resolutions
  invoked     \* the commands handed to os.system, in order

vars ==
  <<dirs, h5df, pc, err, TRIO, i, indiv, protocols, entry, metadata, subdirs,
    RES_DIC, mt, ln, pn, res_i, invoked>>

--------------------------------------------------------------------------
(* dict: a sequence of <<key, value>> pairs in insertion order *)

DictKeys(d) == [j \in 1..Len(d) |-> d[j][1]]
DictHas(d, key) == \E j \in 1..Len(d) : d[j][1] = key
DictGet(d, key) == d[CHOOSE j \in 1..Len(d) : d[j][1] = key][2]
\* d[key] = val
DictSet(d, key, val) ==
  IF DictHas(d, key)
  THEN [j \in 1..Len(d) |-> IF d[j][1] = key THEN <<key, val>> ELSE d[j]]
  ELSE Append(d, <<key, val>>)

--------------------------------------------------------------------------
(* set_trio *)

set_trio(listing) == SortSet({d \in listing : StartsWithTrio(d)})

(* write_metadata *)

\* ind = tmp[0] + '.' + tmp[1]
IndOf(tmp) == tmp[1] \o <<".">> \o tmp[2]

\* prot = tmp[2]
ProtOf(tmp) == tmp[3]

\* variant: nothing is cut off
TrimNothing(s) == s

\* entry[:-1]
Trim(s) == SubSeq(s, 1, Len(s) - 1)

\* entry = indiv + "\t" + protocols
EntryOf(ind, prots) == Some(ind \o <<TAB>> \o prots)

\* variant: entry = '' before the loop
InitialEntryEmpty == Some(<<>>)

\* entry = None before the loop
InitialEntry == NoneVal

\* variant: the flush never raises
SubscriptableAlways(e) == TRUE

\* entry[:-1] raises TypeError when entry is None
Subscriptable(e) == ~e.none

(* create_matrice_directory *)

\* pt == <a list of paths>: a str never compares equal to a list
StrEqList(pt, paths) == FALSE

\* variant: pt in RES_DIC[k].keys()
InValuesAsKeys(pt, d) == DictHas(d, Remove(pt, NL))

\* pt in RES_DIC[k].values()
InValues(pt, d) == \E j \in 1..Len(d) : StrEqList(pt, d[j][2])

\* variant: no list is created before the scan
ResetProtNoCreate(dic, pt) == dic

\* variant: the list is created only when the protocol has none yet
ResetProtIfAbsent(dic, pt) ==
  [k \in Resolutions |->
    IF DictHas(dic[k], Remove(pt, NL)) THEN dic[k]
    ELSE DictSet(dic[k], Remove(pt, NL), <<>>)]

\* for k in RES_DIC.keys(): if pt not in RES_DIC[k].values(): RES_DIC[k][pt] = []
ResetProt(dic, pt) ==
  [k \in Resolutions |->
    IF ~InValues(pt, dic[k]) THEN DictSet(dic[k], Remove(pt, NL), <<>>) ELSE dic[k]]

\* re.search(r'{}.matrix.h5'.format(k), mat) is not None; '.' matches any atom
Matches(k, mat) ==
  \E j \in 1..Len(mat) :
    /\ j + 4 <= Len(mat)
    /\ mat[j] = Format(k)
    /\ mat[j + 2] = "matrix"
    /\ mat[j + 4] = "h5"

\* variant: only the path of the last matching file is kept
MatPathLast(k, listing, prefix) ==
  LET m == SelectSeq(listing, LAMBDA f : Matches(k, f))
  IN IF m = <<>> THEN <<>> ELSE <<prefix \o m[Len(m)]>>

RECURSIVE MatPath(_, _, _)
\* mat_path after the loop over the listing: the path of every matching file
MatPath(k, listing, prefix) ==
  IF listing = <<>> THEN <<>>
  ELSE IF Matches(k, listing[1])
       THEN <<prefix \o listing[1]>> \o MatPath(k, Tail(listing), prefix)
       ELSE MatPath(k, Tail(listing), prefix)

\* The lists mat_path can end as, over the orders os.listdir may return.
PossibleMatPaths(k, content, prefix) ==
  {MatPath(k, o, prefix) : o \in Orders(content)}

\* RES_DIC[k][pt] = mat_path, executed once per matching file
Store(d, key, mat_path) == IF mat_path # <<>> THEN DictSet(d, key, mat_path) ELSE d

\* variant: except KeyError
IsKeyError(exc) == exc = "KeyError"

\* except OSError: the exception classes the handler catches
IsOSError(exc) ==
  exc \in {"OSError", "FileNotFoundError", "NotADirectoryError", "PermissionError"}

\* The trio directory whose results directory wdir+ind_dir+h5_path is.
ResultsDirOf(ind, key) == ind \o <<".">> \o key

PathPrefix(ind, key) == wdir \o ind \o <<".">> \o key \o <<"/">> \o h5_path

\* cmd of the summation loop
Cmd(mats, prot, res) ==
  [matrices |-> mats, outFileName |-> hic_dir \o prot \o <<"_", Format(res), ".h5">>]

--------------------------------------------------------------------------

Init ==
  /\ \E T \in Listings :
       /\ dirs = T \cup {ScriptName}
       /\ \E D \in SUBSET (T \cap ThreeFieldNames) : h5df \in [D -> DirContents]
  /\ pc = "set_trio"
  /\ err = "none"
  /\ TRIO = <<>>
  /\ i = 1
  /\ indiv = <<>>
  /\ protocols = <<>>
  /\ entry = NoneVal
  /\ metadata = <<>>
  /\ subdirs = {}
  /\ RES_DIC = [k \in Resolutions |-> <<>>]
  /\ mt = <<>>
  /\ ln = 1
  /\ pn = 1
  /\ res_i = 1
  /\ invoked = <<>>

\* TRIO = set_trio(wdir)
SetTrio ==
  /\ pc = "set_trio"
  /\ TRIO' = set_trio(dirs)
  /\ pc' = "write_metadata"
  /\ UNCHANGED <<dirs, h5df, err, i, indiv, protocols, entry, metadata, subdirs,
                 RES_DIC, mt, ln, pn, res_i, invoked>>

\* write_metadata: open the file, write the header, initialise the locals
WMOpen ==
  /\ pc = "write_metadata"
  /\ metadata' = Header
  /\ indiv' = <<>>
  /\ protocols' = <<>>
  /\ entry' = InitialEntry
  /\ i' = 1
  /\ pc' = "wm_loop"
  /\ UNCHANGED <<dirs, h5df, err, TRIO, subdirs, RES_DIC, mt, ln, pn, res_i, invoked>>

\* write_metadata: one iteration of the loop over trio
WMLoop ==
  /\ pc = "wm_loop"
  /\ i <= Len(TRIO)
  /\ LET tmp == Split(TRIO[i], ".")
         ind == IndOf(tmp)
         prot == ProtOf(tmp)
     IN IF indiv = ind
        THEN /\ protocols' = protocols \o prot \o <<",">>
             /\ entry' = EntryOf(indiv, protocols')
             /\ UNCHANGED <<indiv, metadata>>
        ELSE /\ IF ~entry.none
                THEN /\ entry' = Some(Trim(entry.s) \o <<NL>>)
                     /\ metadata' = metadata \o entry'.s
                ELSE UNCHANGED <<entry, metadata>>
             /\ indiv' = ind
             /\ protocols' = prot \o <<",">>
  /\ i' = i + 1
  /\ UNCHANGED <<dirs, h5df, pc, err, TRIO, subdirs, RES_DIC, mt, ln, pn, res_i, invoked>>

\* write_metadata: the flush after the loop
WMFlush ==
  /\ pc = "wm_loop"
  /\ i > Len(TRIO)
  /\ IF Subscriptable(entry)
     THEN /\ entry' = Some(Trim(entry.s) \o <<NL>>)
          /\ metadata' = metadata \o entry'.s
          /\ pc' = "make_subdir"
          /\ err' = err
     ELSE /\ pc' = "error"
          /\ err' = "TypeError"
          /\ UNCHANGED <<entry, metadata>>
  /\ UNCHANGED <<dirs, h5df, TRIO, i, indiv, protocols, subdirs, RES_DIC, mt, ln, pn,
                 res_i, invoked>>

\* make_subdir(TRIO)
MakeSubdir ==
  /\ pc = "make_subdir"
  /\ subdirs' = subdirs \cup {hic_dir \o Split(TRIO[j], ".")[2] : j \in 1..Len(TRIO)}
  /\ pc' = "create"
  /\ UNCHANGED <<dirs, h5df, err, TRIO, i, indiv, protocols, entry, metadata,
                 RES_DIC, mt, ln, pn, res_i, invoked>>

\* create_matrice_directory: the empty mapping, the file opened
CMOpen ==
  /\ pc = "create"
  /\ RES_DIC' = [k \in Resolutions |-> <<>>]
  /\ mt' = Lines(metadata)
  /\ ln' = 1
  /\ pn' = 1
  /\ pc' = "collect"
  /\ UNCHANGED <<dirs, h5df, err, TRIO, i, indiv, protocols, entry, metadata, subdirs,
                 res_i, invoked>>

CurLine == mt[ln]
CurInd == Split(CurLine, TAB)[1]
CurProts == Split(Split(CurLine, TAB)[2], ",")
CurPt == CurProts[pn]
CurKey == Remove(CurPt, NL)
Advance ==
  IF pn < Len(CurProts) THEN ln' = ln /\ pn' = pn + 1 ELSE ln' = ln + 1 /\ pn' = 1

\* create_matrice_directory: a line that does not start with 'trio'
CMSkipLine ==
  /\ pc = "collect"
  /\ ln <= Len(mt)
  /\ ~StartsWithTrio(CurLine)
  /\ ln' = ln + 1
  /\ pn' = 1
  /\ UNCHANGED <<dirs, h5df, pc, err, TRIO, i, indiv, protocols, entry, metadata,
                 subdirs, RES_DIC, mt, res_i, invoked>>

\* create_matrice_directory: one protocol of one line
CMPair ==
  /\ pc = "collect"
  /\ ln <= Len(mt)
  /\ StartsWithTrio(CurLine)
  /\ LET reset == ResetProt(RES_DIC, CurPt)
         d == ResultsDirOf(CurInd, CurKey)
         prefix == PathPrefix(CurInd, CurKey)
     IN IF d \in DOMAIN h5df
        THEN /\ \E m1 \in PossibleMatPaths(ResOrder[1], h5df[d], prefix),
                   m2 \in PossibleMatPaths(ResOrder[2], h5df[d], prefix),
                   m3 \in PossibleMatPaths(ResOrder[3], h5df[d], prefix),
                   m4 \in PossibleMatPaths(ResOrder[4], h5df[d], prefix) :
                  LET mp == (ResOrder[1] :> m1) @@ (ResOrder[2] :> m2)
                            @@ (ResOrder[3] :> m3) @@ (ResOrder[4] :> m4)
                  IN RES_DIC' = [k \in Resolutions |-> Store(reset[k], CurKey, mp[k])]
             /\ Advance
             /\ UNCHANGED <<pc, err>>
        ELSE IF IsOSError("FileNotFoundError")
             THEN /\ RES_DIC' = reset
                  /\ Advance
                  /\ UNCHANGED <<pc, err>>
             ELSE /\ RES_DIC' = reset
                  /\ pc' = "error"
                  /\ err' = "FileNotFoundError"
                  /\ UNCHANGED <<ln, pn>>
  /\ UNCHANGED <<dirs, h5df, TRIO, i, indiv, protocols, entry, metadata, subdirs,
                 mt, res_i, invoked>>

\* create_matrice_directory returns; matrices = RES_DIC
CMReturn ==
  /\ pc = "collect"
  /\ ln > Len(mt)
  /\ pc' = "sum"
  /\ res_i' = 1
  /\ UNCHANGED <<dirs, h5df, err, TRIO, i, indiv, protocols, entry, metadata, subdirs,
                 RES_DIC, mt, ln, pn, invoked>>

\* summation loop: one resolution, the command of each of its protocols in turn
SumRes ==
  /\ pc = "sum"
  /\ res_i <= Len(ResOrder)
  /\ LET res == ResOrder[res_i]
         prots == DictKeys(RES_DIC[res])
     IN invoked' = invoked \o
          [j \in 1..Len(prots) |->
            Cmd(Join(DictGet(RES_DIC[res], prots[j]), " "), prots[j], res)]
  /\ res_i' = res_i + 1
  /\ UNCHANGED <<dirs, h5df, pc, err, TRIO, i, indiv, protocols, entry, metadata,
                 subdirs, RES_DIC, mt, ln, pn>>

\* the script ends
Finish ==
  /\ pc = "sum"
  /\ res_i > Len(ResOrder)
  /\ pc' = "done"
  /\ UNCHANGED <<dirs, h5df, err, TRIO, i, indiv, protocols, entry, metadata, subdirs,
                 RES_DIC, mt, ln, pn, res_i, invoked>>

Next ==
  \/ SetTrio
  \/ WMOpen
  \/ WMLoop
  \/ WMFlush
  \/ MakeSubdir
  \/ CMOpen
  \/ CMSkipLine
  \/ CMPair
  \/ CMReturn
  \/ SumRes
  \/ Finish

Spec == Init /\ [][Next]_vars

--------------------------------------------------------------------------
(* Vocabulary of the properties *)

\* write_metadata has returned or raised
WMFinished == pc \notin {"set_trio", "write_metadata", "wm_loop"}

\* create_matrice_directory has returned
CMReturned == pc \in {"sum", "done"}

FieldsOf(name) == Split(name, ".")

\* the individual ids of the entries of a trio list, entry by entry
IndsOf(trio) == [j \in 1..Len(trio) |-> IndOf(FieldsOf(trio[j]))]

RECURSIVE Dedup(_, _)
\* the distinct elements of a sequence, in the order they first appear
Dedup(seq, seen) ==
  IF seq = <<>> THEN <<>>
  ELSE IF seq[1] \in seen THEN Dedup(Tail(seq), seen)
  ELSE <<seq[1]>> \o Dedup(Tail(seq), seen \cup {seq[1]})

\* some individual id occurs in two or more entries
HasRepeatedInd(trio) ==
  \E a, b \in 1..Len(trio) : a # b /\ IndsOf(trio)[a] = IndsOf(trio)[b]

\* the rows after the first line of the file
DataLines == IF metadata = <<>> THEN <<>> ELSE Tail(Lines(metadata))

\* first column of a row
RowInd(line) == Split(line, TAB)[1]

\* row of an individual: its id, TAB, the given fields of its entries joined by commas
RowOf(trio, id, idOf(_), protOf(_)) ==
  LET mine == SelectSeq(trio, LAMBDA n : idOf(FieldsOf(n)) = id)
  IN id \o <<TAB>> \o Join([j \in 1..Len(mine) |-> protOf(FieldsOf(mine[j]))], ",") \o <<NL>>

\* '<family>.<individual>' and the last field, as the four-field reading has them
FamilyInd(tmp) == tmp[2] \o <<".">> \o tmp[3]
LastField(tmp) == tmp[Len(tmp)]

ExampleTrio ==
  <<Name4("A", "001", "Capture"), Name4("A", "001", "HiC"), Name4("B", "002", "HiC")>>

RECURSIVE PairsFrom(_, _)
PairsFrom(lines, j) ==
  IF j > Len(lines) THEN <<>>
  ELSE IF StartsWithTrio(lines[j])
       THEN LET ind == Split(lines[j], TAB)[1]
                prots == Split(Split(lines[j], TAB)[2], ",")
            IN [q \in 1..Len(prots) |-> <<ind, Remove(prots[q], NL)>>]
               \o PairsFrom(lines, j + 1)
       ELSE PairsFrom(lines, j + 1)

\* the (individual, protocol) pairs metadata.tsv lists, in file order
MetaPairs == PairsFrom(Lines(metadata), 1)

\* the protocols among pairs
KeysOf(mp) == {mp[j][2] : j \in 1..Len(mp)}

\* the last of the pairs to list a protocol
LastOf(mp, key) ==
  mp[CHOOSE j \in 1..Len(mp) :
       /\ mp[j][2] = key
       /\ \A q \in (j + 1)..Len(mp) : mp[q][2] # key]

\* the paths a scan of the results directory of a pair finds for a resolution
ScanPaths(k, pair) ==
  LET d == ResultsDirOf(pair[1], pair[2])
  IN IF d \in DOMAIN h5df
     THEN {PathPrefix(pair[1], pair[2]) \o f : f \in {g \in h5df[d] : Matches(k, g)}}
     ELSE {}

ListOf(dic, k, key) == IF DictHas(dic[k], key) THEN DictGet(dic[k], key) ELSE <<>>

\* create_matrice_directory is about to process the pair (CurInd, CurKey)
AtPair == pc = "collect" /\ ln <= Len(mt) /\ StartsWithTrio(CurLine)

CurMissing == ResultsDirOf(CurInd, CurKey) \notin DOMAIN h5df

--------------------------------------------------------------------------
(* Properties *)

\* C1: for a non-empty sorted trio list, once write_metadata has finished the
\* file is the header line followed by exactly one row per distinct individual
\* id, in the order the individuals first appear (none missing, none twice).
C1_OneRowPerIndividual ==
  (WMFinished /\ TRIO # <<>>) =>
    /\ err = "none"
    /\ Lines(metadata)[1] = Header
    /\ [j \in 1..Len(DataLines) |-> RowInd(DataLines[j])] = Dedup(IndsOf(TRIO), {})

\* C2 as stated: for names trio.<family>.<individual>.<protocol> every row
\* written is '<family>.<individual>' TAB the comma-joined last fields of the
\* entries of that individual.
C2_FamilyIndividualRows ==
  (TRIO # <<>> /\ \A j \in 1..Len(TRIO) : Len(FieldsOf(TRIO[j])) = 4) =>
    \A j \in 1..Len(DataLines) :
      \E n \in 1..Len(TRIO) :
        DataLines[j] = RowOf(TRIO, FamilyInd(FieldsOf(TRIO[n])), FamilyInd, LastField)

\* C2 amended: the file starts with the header, written once; every row written
\* is '<field 1>.<field 2>' (that is 'trio.<family>') TAB the comma-joined third
\* fields of all the entries with that id, without a trailing comma; for
\* trio.A.001.Capture, trio.A.001.HiC, trio.B.002.HiC the rows written are
\* 'trio.A<TAB>001,001' twice.
C2_TrioFamilyRows ==
  /\ metadata # <<>> =>
       /\ Lines(metadata)[1] = Header
       /\ \A j \in 1..Len(DataLines) :
            /\ DataLines[j] # Header
            /\ \E n \in 1..Len(TRIO) :
                 DataLines[j] = RowOf(TRIO, IndOf(FieldsOf(TRIO[n])), IndOf, ProtOf)
  /\ (WMFinished /\ TRIO = ExampleTrio) =>
       LET row == <<"trio", ".", "A", TAB, "001", ",", "001", NL>>
       IN Lines(metadata) = <<Header, row, row>>

C2_Witness == pc = "done" /\ TRIO = ExampleTrio

\* C3: the summation command is invoked for a (resolution, protocol) pair only
\* if the collected path list of the pair is non-empty.
C3_InvokedOnlyNonEmpty ==
  \A j \in 1..Len(invoked) :
    \A k \in Resolutions :
      \A key \in KeysOf(MetaPairs) :
        invoked[j].outFileName = Cmd(<<>>, key, k).outFileName =>
          ListOf(RES_DIC, k, key) # <<>>

\* C4: a pair whose results directory does not exist adds no path under any
\* resolution, nothing is raised, and the collection moves on to the next pair.
C4_MissingDirSkipped ==
  [][(AtPair /\ CurMissing) =>
       /\ pc' = "collect"
       /\ err' = "none"
       /\ (ln' = ln /\ pn' = pn + 1) \/ (ln' = ln + 1 /\ pn' = 1)
       /\ \A k \in Resolutions :
            /\ ListOf(RES_DIC', k, CurKey) = <<>>
            /\ \A j \in 1..Len(RES_DIC[k]) :
                 RES_DIC[k][j][1] # CurKey => RES_DIC'[k][j] = RES_DIC[k][j]]_vars

C4_Witness ==
  /\ pc = "done"
  /\ LET mp == MetaPairs
     IN \E a, b \in 1..Len(mp) :
          /\ a < b
          /\ ResultsDirOf(mp[a][1], mp[a][2]) \notin DOMAIN h5df
          /\ \E k \in Resolutions :
               /\ ScanPaths(k, mp[b]) # {}
               /\ ListOf(RES_DIC, k, mp[b][2]) # <<>>

\* C5: every file of the scanned results directory that matches a resolution
\* is in the list of that resolution for the protocol, each once.
C5_AllMatchesCollected ==
  [][(AtPair /\ ~CurMissing) =>
       \A k \in Resolutions :
         /\ ScanPaths(k, <<CurInd, CurKey>>) \subseteq Range(ListOf(RES_DIC', k, CurKey))
         /\ Len(ListOf(RES_DIC', k, CurKey))
              = Cardinality(ScanPaths(k, <<CurInd, CurKey>>))]_vars

C5_Witness ==
  /\ CMReturned
  /\ \E k \in Resolutions : \E key \in Protocols : Len(ListOf(RES_DIC, k, <<key>>)) >= 2

\* C6 as stated: the returned mapping has the four resolution keys and no
\* protocol key maps to an empty list.
C6_NoEmptyList ==
  CMReturned =>
    /\ DOMAIN RES_DIC = {1000000, 500000, 200000, 50000}
    /\ \A k \in Resolutions : \A j \in 1..Len(RES_DIC[k]) : RES_DIC[k][j][2] # <<>>

\* C6 amended: the returned mapping has the four resolution keys; under each
\* of them every protocol listed in metadata.tsv is a key, once; its list is
\* non-empty exactly when the last scan for the protocol found a matching file.
C6_EveryProtocolKeyed ==
  CMReturned =>
    LET mp == MetaPairs
    IN /\ DOMAIN RES_DIC = {1000000, 500000, 200000, 50000}
       /\ \A k \in Resolutions :
            /\ Range(DictKeys(RES_DIC[k])) = KeysOf(mp)
            /\ Len(RES_DIC[k]) = Cardinality(KeysOf(mp))
            /\ \A key \in KeysOf(mp) :
                 (DictGet(RES_DIC[k], key) # <<>>) <=> (ScanPaths(k, LastOf(mp, key)) # {})

C6_Witness ==
  /\ CMReturned
  /\ \E k \in Resolutions : \E key \in Protocols :
       /\ DictHas(RES_DIC[k], <<key>>)
       /\ DictGet(RES_DIC[k], <<key>>) = <<>>

\* C7: for the empty trio list write_metadata writes the header and then fails
\* in the final flush with a TypeError; no row is written.
C7_EmptyTrioFails ==
  (WMFinished /\ TRIO = <<>>) =>
    /\ pc = "error"
    /\ err = "TypeError"
    /\ entry = NoneVal
    /\ metadata = Header

C7_Witness == WMFinished /\ TRIO = <<>> /\ metadata = Header

\* C8: after the pass the list of a (resolution, protocol) pair holds exactly
\* the matches of the last scan for the protocol, and no path of an earlier one.
C8_LastScanOnly ==
  CMReturned =>
    LET mp == MetaPairs
    IN \A k \in Resolutions : \A key \in KeysOf(mp) :
         Range(ListOf(RES_DIC, k, key)) = ScanPaths(k, LastOf(mp, key))

C8_Witness ==
  /\ CMReturned
  /\ LET mp == MetaPairs
     IN \E k \in Resolutions : \E a, b \in 1..Len(mp) :
          /\ a < b
          /\ mp[a][2] = mp[b][2]
          /\ mp[a][1] # mp[b][1]
          /\ mp[b] = LastOf(mp, mp[b][2])
          /\ ScanPaths(k, mp[a]) # {}
          /\ ScanPaths(k, mp[b]) # {}
          /\ Range(ListOf(RES_DIC, k, mp[b][2])) \cap ScanPaths(k, mp[a]) = {}

\* C9: write_metadata completes without error exactly when some individual id
\* occurs in two or more entries; otherwise the final flush fails with the
\* TypeError of the empty input, entry never having been set.
C9_CompletesIffRepeated ==
  WMFinished =>
    /\ (pc # "error") <=> HasRepeatedInd(TRIO)
    /\ ~HasRepeatedInd(TRIO) =>
         /\ err = "TypeError"
         /\ entry = NoneVal
         /\ i = Len(TRIO) + 1
         /\ metadata = Header

C9_Witness ==
  /\ WMFinished
  /\ Len(TRIO) >= 2
  /\ ~HasRepeatedInd(TRIO)
  /\ err = "TypeError"

\* C10: processing a pair leaves under every resolution a list for the protocol
\* that holds paths of this pair's results directory only, whatever was there
\* before, and the empty list when the directory is missing or has no match;
\* hence the returned list is empty when the last pair listing the protocol
\* has no match.
C10_ResetOnEveryPair ==
  [][/\ AtPair =>
          \A k \in Resolutions :
            /\ DictHas(RES_DIC'[k], CurKey)
            /\ Range(DictGet(RES_DIC'[k], CurKey)) \subseteq ScanPaths(k, <<CurInd, CurKey>>)
     /\ (pc = "collect" /\ pc' = "sum") =>
          LET mp == MetaPairs
          IN \A k \in Resolutions : \A key \in KeysOf(mp) :
               ScanPaths(k, LastOf(mp, key)) = {} => ListOf(RES_DIC', k, key) = <<>>]_vars

C10_Witness ==
  /\ CMReturned
  /\ LET mp == MetaPairs
     IN \E k \in Resolutions : \E a, b \in 1..Len(mp) :
          /\ a < b
          /\ mp[a][2] = mp[b][2]
          /\ mp[a][1] # mp[b][1]
          /\ mp[b] = LastOf(mp, mp[b][2])
          /\ ScanPaths(k, mp[a]) # {}
          /\ ScanPaths(k, mp[b]) = {}
          /\ ListOf(RES_DIC, k, mp[b][2]) = <<>>

====
